---- MODULE Spec2Model ----
(***************************************************************************)
(* A model of subdl (src/subdl.py): the command-line run of main() against *)
(* the remote subtitle index, and the pure functions filtersub and         *)
(* movie_hash.                                                             *)
(*                                                                         *)
(* Strings that the program takes apart (paths, templates, ratings,        *)
(* counts, payloads) are sequences of one-character strings.               *)
(***************************************************************************)
EXTENDS Integers, Sequences, FiniteSets, TLC

VARIABLES
    options,            \* the parsed command line (parseargs), fixed after Init
    pc,                 \* position of main()
    file_idx,           \* index into options.files of the file being processed
    search_results,     \* candidates returned by the last search of this file
    no_search_results,  \* counter of files without results
    todo,               \* candidates still to pass to AutoDownloadAndSave
    downloaded,         \* the Batch: <<paths>> in an "all" download, else None
    fs,                 \* the file system: existing path -> content
    osdb_token,         \* the session token, None before login
    logins,             \* log of the LogIn calls and their answers
    exit_code,          \* the process exit status, Running before the exit
    error,              \* the kind of the fatal error that ended the run
    searches,           \* log of the Search requests issued for this file
    saves,              \* log of the AutoDownloadAndSave calls of this file
    layout,             \* filtersub: the cue blocks the input is made of
    payload,            \* filtersub: the input bytes
    output,             \* filtersub: the returned bytes
    fstate,             \* filtersub: "idle", "called" or "returned"
    media,              \* movie_hash: the bytes of the file
    hash,               \* movie_hash: the accumulator
    hpos,               \* movie_hash: the position of f, in bytes
    hx,                 \* movie_hash: the loop variable x
    hread,              \* movie_hash: number of bytes read from the file
    fingerprint,        \* movie_hash: the returned string
    hstate              \* movie_hash: position of the function

vars == <<options, pc, file_idx, search_results, no_search_results, todo,
          downloaded, fs, osdb_token, logins, exit_code, error, searches,
          saves,
          layout, payload, output, fstate, media, hash, hpos, hx, hread,
          fingerprint, hstate>>

mainVars == <<options, pc, file_idx, search_results, no_search_results, todo,
              downloaded, fs, osdb_token, logins, exit_code, error,
              searches, saves>>
filterVars == <<layout, payload, output, fstate>>
hashVars == <<media, hash, hpos, hx, hread, fingerprint, hstate>>

None == "None"
Running == -1

\* ------------------------------------------------------------------ bounds
MaxFiles == 2
MaxResults == 2
MaxCues == 2
\* movie_hash is run at a reduced scale: words of bytesize bytes instead of
\* 8, windows of WindowWords words instead of 8192, on files that are zero
\* but for at most MaxNonZero bytes
bytesize == 2
WindowWords == 2
MaxNonZero == 3

\* ----------------------------------------------------------------- strings
Max(S) == CHOOSE x \in S : \A y \in S : y <= x

\* str.rfind, 1-based; 0 when c does not occur
rfind(s, c) ==
    LET idxs == {i \in 1..Len(s) : s[i] = c}
    IN IF idxs = {} THEN 0 ELSE Max(idxs)

\* os.path.splitext: the index of the dot that starts the extension, 0 if none.
\* The dot must follow the last "/" and a character of the name other than ".".
splitext(p) ==
    LET sep == rfind(p, "/")
        dot == rfind(p, ".")
    IN IF dot > sep /\ \E k \in (sep + 1)..(dot - 1) : p[k] # "."
       THEN dot ELSE 0

file_ext(filename) ==
    LET d == splitext(filename)
    IN IF d = 0 THEN <<>> ELSE SubSeq(filename, d + 1, Len(filename))

file_base(filename) ==
    LET d == splitext(filename)
    IN IF d = 0 THEN filename ELSE SubSeq(filename, 1, d - 1)

\* os.path.basename
basename(p) == SubSeq(p, rfind(p, "/") + 1, Len(p))

\* file_name = file_base(os.path.basename(file))
file_name(file) == file_base(basename(file))

RECURSIVE Concat(_)
Concat(ss) == IF ss = <<>> THEN <<>> ELSE Head(ss) \o Concat(Tail(ss))

\* ------------------------------------------------------- the remote index
\* Candidate records of the remote index (SubtitleSearchResult). Identifiers
\* and language names are atoms; file names, ratings and counts are strings.
CandA == [IDSubtitleFile |-> "1", SubFileName |-> <<"s", ".", "t">>,
          ISO639 |-> "en", LanguageName |-> "English",
          SubRating |-> <<"9", ".", "0">>, SubDownloadsCnt |-> <<"5">>]
CandB == [IDSubtitleFile |-> "2", SubFileName |-> <<"s", ".", "t">>,
          ISO639 |-> "en", LanguageName |-> "English",
          SubRating |-> <<"1", "0", ".", "0">>, SubDownloadsCnt |-> <<"1", "2">>]
CandC == [IDSubtitleFile |-> "3", SubFileName |-> <<"r", ".", "u">>,
          ISO639 |-> "en", LanguageName |-> "English",
          SubRating |-> <<"9">>, SubDownloadsCnt |-> <<"1", "2">>]
Pool == {CandA, CandB, CandC}

\* The result sets a Search may return: ids are unique within one set.
Responses ==
    UNION {{r \in [1..n -> Pool] : \A i, j \in 1..n : r[i] = r[j] => i = j}
           : n \in 0..MaxResults}

\* What a Search answers: a result set, or the call raises (ok = FALSE).
Answers ==
    {[ok |-> TRUE, data |-> r] : r \in Responses}
        \cup {[ok |-> FALSE, data |-> <<>>]}

\* File contents: what a Download of sub_id decodes to, a media file, no file.
Payload(sub_id) == [sub |-> sub_id]
MediaContent == [sub |-> "-media-"]
Absent == [sub |-> "-absent-"]

\* ------------------------------------------------------------ command line
FileA == <<"d", "/", "a", ".", "v">>
FileB == <<"d", "/", "a", ".", "w">>
FileX == <<"x">>
FileNames == {FileA, FileB, FileX}
\* the files on disk at the start: FileX does not exist
InitialFs == [p \in {FileA, FileB} |-> MediaContent]

FileLists ==
    UNION {{f \in [1..n -> FileNames] : \A i, j \in 1..n : f[i] = f[j] => i = j}
           : n \in 1..MaxFiles}

ImdbId == <<"t", "t", "7">>
Query == <<"q">>

FmtDefault == <<"{m}", ".", "{S}">>
FmtAll == <<"{m}", ".", "{L}", ".", "{I}", ".", "{S}">>
FmtSelf == <<"{m}", ".", "{M}">>

DownloadModes == {"all", "first", "query", "none", "best-rating", "most-downloaded"}
ExistingPolicies == {"abort", "bypass", "overwrite", "query"}

IntOf == [v \in {"0", "1", "2", "3"} |-> CASE v = "0" -> 0 [] v = "1" -> 1
                                           [] v = "2" -> 2 [] v = "3" -> 3]

isnumber(value) == value \in DOMAIN IntOf /\ IntOf[value] > 0

default_output_fmt(download) ==
    IF download = "all" THEN FmtAll ELSE FmtDefault

\* The options parseargs lets through: a known --download, at least one file,
\* a single file with --force-imdb or --download=ID, and an --output that
\* defaults to default_output_fmt.
parseargs ==
    {[a EXCEPT !.output = IF a.output = <<>>
                          THEN default_output_fmt(a.download) ELSE a.output] :
     a \in {o \in [search : {<<>>, Query},
                   imdb_id : {<<>>, <<ImdbId>>},
                   force_imdb : BOOLEAN,
                   force_filename : BOOLEAN,
                   download : DownloadModes \cup {"2"},
                   existing : ExistingPolicies,
                   output : {<<>>, FmtDefault, FmtSelf},
                   files : FileLists] :
              /\ (o.download \in DownloadModes \/ isnumber(o.download))
              /\ (Len(o.files) > 1 => ~o.force_imdb)
              /\ (Len(o.files) > 1 => ~isnumber(o.download))}}

\* ------------------------------------------------------------------ main()
\* "downloaded": None outside an "all" download, else the dict of paths
NoBatch == [on |-> FALSE, paths |-> {}]
NewBatch == [on |-> TRUE, paths |-> {}]

\* fatal_error(message, code): the run ends with exit status code
fatal_error(kind, code) ==
    /\ pc' = "exit"
    /\ exit_code' = code
    /\ error' = kind

\* an exception nothing catches: a traceback and exit status 1
uncaught(kind) == fatal_error(kind, 1)

InitMain ==
    /\ options \in parseargs
    /\ pc = "connect"
    /\ file_idx = 1
    /\ search_results = <<>>
    /\ no_search_results = 0
    /\ todo = <<>>
    /\ downloaded = NoBatch
    /\ fs = InitialFs
    /\ osdb_token = None
    /\ logins = <<>>
    /\ exit_code = Running
    /\ error = None
    /\ searches = <<>>
    /\ saves = <<>>

IdleFilter ==
    /\ layout = [blocks |-> <<>>, eol |-> <<>>, sep |-> <<>>,
                 lead |-> <<>>, trail |-> <<>>]
    /\ payload = <<>>
    /\ output = <<>>
    /\ fstate = "idle"
IdleHash ==
    /\ media = <<>>
    /\ hash = 0
    /\ hpos = 0
    /\ hx = 0
    /\ hread = 0
    /\ fingerprint = <<>>
    /\ hstate = "idle"

\* the answers of LogIn
Logins == {[status |-> "200 OK", token |-> "tok"],
           [status |-> "401 Unauthorized", token |-> None]}

connectFrame ==
    /\ UNCHANGED <<options, file_idx, search_results, no_search_results, todo,
                   downloaded, fs, searches, saves>>
    /\ UNCHANGED <<filterVars, hashVars>>

\* (a variant that takes the token whatever the status)
osdb_connect_any_status ==
    /\ pc = "connect"
    /\ \E login \in Logins :
         /\ logins' = Append(logins, login)
         /\ osdb_token' = login.token
         /\ pc' = "loop"
         /\ UNCHANGED <<exit_code, error>>
    /\ connectFrame

\* osdb_connect: LogIn, fatal unless the status is "200 OK"
osdb_connect ==
    /\ pc = "connect"
    /\ \E login \in Logins :
         /\ logins' = Append(logins, login)
         /\ IF login.status # "200 OK"
            THEN /\ fatal_error("AuthFailure", 1)
                 /\ UNCHANGED osdb_token
            ELSE /\ osdb_token' = login.token
                 /\ pc' = "loop"
                 /\ UNCHANGED <<exit_code, error>>
    /\ connectFrame

\* (a variant that tests --force-imdb before the explicit query)
first_search_imdb_first ==
    IF options.force_imdb
    THEN IF options.imdb_id = <<>> THEN "MissingImdbId" ELSE "force_imdb"
    ELSE IF options.search # <<>> THEN "search"
    ELSE IF options.force_filename THEN "force_filename"
    ELSE "hash"

\* the if/elif chain of main() that picks the search of a file: the explicit
\* query, then --force-imdb (which needs an id), then --force-filename, then
\* the hash
first_search ==
    IF options.search # <<>> THEN "search"
    ELSE IF options.force_imdb
    THEN IF options.imdb_id = <<>> THEN "MissingImdbId" ELSE "force_imdb"
    ELSE IF options.force_filename THEN "force_filename"
    ELSE "hash"

\* the head of an iteration of "for file in options.files": the existence
\* check and the choice of the first search of the file. The locals of the
\* previous iteration (search_results, downloaded) are dead here, every
\* iteration assigns them before it reads them, and are cleared with the logs.
main_file ==
    /\ pc = "loop"
    /\ file_idx <= Len(options.files)
    /\ searches' = <<>>
    /\ saves' = <<>>
    /\ search_results' = <<>>
    /\ downloaded' = NoBatch
    /\ IF options.files[file_idx] \notin DOMAIN fs
       THEN fatal_error("FileNotFound", 1)
       ELSE IF first_search = "MissingImdbId"
       THEN fatal_error("MissingImdbId", 1)
       ELSE pc' = first_search /\ UNCHANGED <<exit_code, error>>
    /\ UNCHANGED <<options, file_idx, no_search_results, todo, fs, osdb_token,
                   logins>>
    /\ UNCHANGED <<filterVars, hashVars>>

\* after the loop: a non-zero exit if some file had no results
main_end ==
    /\ pc = "loop"
    /\ file_idx > Len(options.files)
    /\ IF no_search_results > 0
       THEN fatal_error("NoResults", 1)
       ELSE pc' = "exit" /\ exit_code' = 0 /\ UNCHANGED error
    /\ UNCHANGED <<options, file_idx, search_results, no_search_results, todo,
                   downloaded, fs, osdb_token, logins, searches, saves>>
    /\ UNCHANGED <<filterVars, hashVars>>

\* re.search("\d+", imdb_id).group(0): the first run of digits
Digits == {"0", "1", "2", "3", "4", "5", "6", "7", "8", "9"}
first_digits(s) ==
    LET starts == {i \in 1..Len(s) : s[i] \in Digits}
        b == CHOOSE i \in starts : \A j \in starts : i <= j
        ends == {e \in b..Len(s) : \A k \in b..e : s[k] \in Digits}
    IN SubSeq(s, b, Max(ends))

\* (a variant that swallows the exception and goes on without results)
SearchSubtitles_swallow(answer) ==
    [fatal |-> FALSE, results |-> answer.data]

\* try: SearchSubtitles(...) except Exception: fatal_error(...); then
\* "data and [SubtitleSearchResult(d) for d in data]"
SearchSubtitles(answer) ==
    IF answer.ok
    THEN [fatal |-> FALSE, results |-> answer.data]
    ELSE [fatal |-> TRUE, results |-> <<>>]

ResultOf(answer) ==
    IF ~answer.ok THEN "error"
    ELSE IF answer.data = <<>> THEN "empty" ELSE "found"

\* the step of main() that follows the hash search
after_hash(results) ==
    IF results = <<>> /\ options.imdb_id # <<>> THEN "hash_imdb"
    ELSE IF results = <<>> THEN "hash_filename"
    ELSE "results"

searchFrame ==
    /\ UNCHANGED <<options, file_idx, no_search_results, todo, downloaded, fs,
                   osdb_token, logins, saves>>
    /\ UNCHANGED <<filterVars, hashVars>>

SearchSubtitlesByHash ==
    /\ pc = "hash"
    /\ \E too_small \in BOOLEAN :
       IF too_small
       THEN \* movie_hash raises for a file under 2 * 65536 bytes, before any
            \* request is made, and nothing catches it
            /\ uncaught("FileTooSmall")
            /\ UNCHANGED <<searches, search_results>>
       ELSE \E answer \in Answers :
            LET r == SearchSubtitles(answer) IN
            /\ searches' = Append(searches,
                   [file |-> file_idx, tier |-> "hash",
                    query |-> options.files[file_idx],
                    result |-> ResultOf(answer), token |-> osdb_token])
            /\ IF r.fatal
               THEN fatal_error("TransportFailure", 1)
                    /\ UNCHANGED search_results
               ELSE /\ search_results' = r.results
                    /\ pc' = after_hash(r.results)
                    /\ UNCHANGED <<exit_code, error>>
    /\ searchFrame

SearchSubtitlesByIMDBId ==
    /\ pc \in {"force_imdb", "hash_imdb"}
    /\ \E answer \in Answers :
         LET r == SearchSubtitles(answer) IN
         /\ searches' = Append(searches,
                [file |-> file_idx, tier |-> "imdb",
                 query |-> first_digits(options.imdb_id[1]),
                 result |-> ResultOf(answer), token |-> osdb_token])
         /\ IF r.fatal
            THEN fatal_error("TransportFailure", 1)
                 /\ UNCHANGED search_results
            ELSE /\ search_results' = r.results
                 /\ pc' = "results"
                 /\ UNCHANGED <<exit_code, error>>
    /\ searchFrame

SearchSubtitlesByString ==
    /\ pc \in {"search", "force_filename", "hash_filename"}
    /\ \E answer \in Answers :
         LET r == SearchSubtitles(answer) IN
         /\ searches' = Append(searches,
                [file |-> file_idx, tier |-> "text",
                 query |-> IF pc = "search" THEN options.search
                           ELSE file_name(options.files[file_idx]),
                 result |-> ResultOf(answer), token |-> osdb_token])
         /\ IF r.fatal
            THEN fatal_error("TransportFailure", 1)
                 /\ UNCHANGED search_results
            ELSE /\ search_results' = r.results
                 /\ pc' = "results"
                 /\ UNCHANGED <<exit_code, error>>
    /\ searchFrame

\* ------------------------------------------------------------- selection
DigitVal == [d \in Digits |->
    CASE d = "0" -> 0 [] d = "1" -> 1 [] d = "2" -> 2 [] d = "3" -> 3
      [] d = "4" -> 4 [] d = "5" -> 5 [] d = "6" -> 6 [] d = "7" -> 7
      [] d = "8" -> 8 [] d = "9" -> 9]

\* int(s) of a string of decimal digits
RECURSIVE py_int(_)
py_int(s) ==
    IF s = <<>> THEN 0
    ELSE py_int(SubSeq(s, 1, Len(s) - 1)) * 10 + DigitVal[s[Len(s)]]

\* float(s) of a decimal with at most one fractional digit, in tenths
py_float(s) ==
    LET d == rfind(s, ".")
    IN IF d = 0 THEN py_int(s) * 10
       ELSE py_int(SubSeq(s, 1, d - 1)) * 10
            + (IF d < Len(s) THEN DigitVal[s[d + 1]] ELSE 0)

\* (a variant of the scan that keeps the last maximum)
RECURSIVE max_scan_last(_, _, _)
max_scan_last(keys, i, best) ==
    IF i > Len(keys) THEN best
    ELSE max_scan_last(keys, i + 1, IF keys[i] >= keys[best] THEN i ELSE best)

\* max(iterable, key=...): a scan that replaces the best only by a greater key
RECURSIVE max_scan(_, _, _)
max_scan(keys, i, best) ==
    IF i > Len(keys) THEN best
    ELSE max_scan(keys, i + 1, IF keys[i] > keys[best] THEN i ELSE best)

best_rating(results) ==
    results[max_scan([i \in 1..Len(results) |-> py_float(results[i].SubRating)],
                     2, 1)]

most_downloaded(results) ==
    results[max_scan([i \in 1..Len(results) |->
                         py_int(results[i].SubDownloadsCnt)], 2, 1)]

\* select_search_result_by_id: the first result with that id, <<>> if none
select_search_result_by_id(id, results) ==
    LET hits == {i \in 1..Len(results) : results[i].IDSubtitleFile = id}
    IN IF hits = {} THEN <<>>
       ELSE <<results[CHOOSE i \in hits : \A j \in hits : i <= j]>>

\* "if not search_results: ... continue", then the dispatch on options.download
main_results ==
    /\ pc = "results"
    /\ IF search_results = <<>>
       THEN /\ no_search_results' = no_search_results + 1
            /\ file_idx' = file_idx + 1
            /\ pc' = "loop"
            /\ UNCHANGED <<todo, downloaded, exit_code, error>>
       ELSE
       /\ UNCHANGED <<no_search_results, file_idx>>
       /\ CASE options.download = "none" ->
                \* raise SystemExit
                /\ pc' = "exit" /\ exit_code' = 0
                /\ UNCHANGED <<todo, downloaded, error>>
            [] options.download = "first" ->
                /\ todo' = <<search_results[1]>>
                /\ downloaded' = NoBatch
                /\ pc' = "save"
                /\ UNCHANGED <<exit_code, error>>
            [] options.download = "all" ->
                /\ todo' = search_results
                /\ downloaded' = NewBatch
                /\ pc' = "save"
                /\ UNCHANGED <<exit_code, error>>
            [] options.download = "query" ->
                \* query_num: an index in range, or the user interrupts
                \E n \in 0..Len(search_results) :
                    IF n = 0
                    THEN fatal_error("Aborted", 1)
                         /\ UNCHANGED <<todo, downloaded>>
                    ELSE /\ todo' = <<search_results[n]>>
                         /\ downloaded' = NoBatch
                         /\ pc' = "save"
                         /\ UNCHANGED <<exit_code, error>>
            [] options.download = "best-rating" ->
                /\ todo' = <<best_rating(search_results)>>
                /\ downloaded' = NoBatch
                /\ pc' = "save"
                /\ UNCHANGED <<exit_code, error>>
            [] options.download = "most-downloaded" ->
                /\ todo' = <<most_downloaded(search_results)>>
                /\ downloaded' = NoBatch
                /\ pc' = "save"
                /\ UNCHANGED <<exit_code, error>>
            [] isnumber(options.download) ->
                LET hit == select_search_result_by_id(options.download,
                                                      search_results) IN
                IF hit = <<>>
                THEN fatal_error("CandidateNotFound", 1)
                     /\ UNCHANGED <<todo, downloaded>>
                ELSE /\ todo' = hit
                     /\ downloaded' = NoBatch
                     /\ pc' = "save"
                     /\ UNCHANGED <<exit_code, error>>
    /\ UNCHANGED <<options, search_results, fs, osdb_token, logins, searches,
                   saves>>
    /\ UNCHANGED <<filterVars, hashVars>>

\* ------------------------------------------------------------ OutputNamer
\* options.output.format(**repl)
repl(k, videoname, search_result) ==
    CASE k = "{I}" -> <<search_result.IDSubtitleFile>>
      [] k = "{m}" -> file_base(videoname)
      [] k = "{M}" -> file_ext(videoname)
      [] k = "{s}" -> file_base(search_result.SubFileName)
      [] k = "{S}" -> file_ext(search_result.SubFileName)
      [] k = "{l}" -> <<search_result.LanguageName>>
      [] k = "{L}" -> <<search_result.ISO639>>
      [] OTHER -> <<k>>

render(fmt, videoname, search_result) ==
    Concat([i \in 1..Len(fmt) |-> repl(fmt[i], videoname, search_result)])

\* (a variant without the assertion)
format_subtitle_output_filename_noassert(videoname, search_result) ==
    [path |-> render(options.output, videoname, search_result), ok |-> TRUE]

\* the path, and whether "assert output_filename != videoname" passes
format_subtitle_output_filename(videoname, search_result) ==
    LET output_filename == render(options.output, videoname, search_result)
    IN [path |-> output_filename, ok |-> output_filename # videoname]

\* (a variant that never finds the path in the Batch)
in_batch_never(batch, output_filename) == FALSE

\* "if downloaded is not None: if output_filename in downloaded"
in_batch(batch, output_filename) ==
    batch.on /\ output_filename \in batch.paths

\* (a variant whose "bypass" branch lacks its return and falls through)
existing_action_nobypass(exists, policy, yn) ==
    IF ~exists THEN "download"
    ELSE CASE policy = "abort" -> "ExistingFile"
           [] policy = "bypass" -> "download"
           [] policy = "overwrite" -> "download"
           [] policy = "query" ->
                IF yn = "y" THEN "download"
                ELSE IF yn = "n" THEN "NotOverwritten" ELSE "Aborted"

\* DownloadAndSaveSubtitle up to the download: what options.existing and the
\* answer to query_yn decide for a destination that exists
existing_action(exists, policy, yn) ==
    IF ~exists THEN "download"
    ELSE CASE policy = "abort" -> "ExistingFile"
           [] policy = "bypass" -> "bypass"
           [] policy = "overwrite" -> "download"
           [] policy = "query" ->
                IF yn = "y" THEN "download"
                ELSE IF yn = "n" THEN "NotOverwritten" ELSE "Aborted"

\* AutoDownloadAndSave(file, candidate, downloaded) for the next candidate of
\* the file, with DownloadAndSaveSubtitle, DownloadSubtitle and writefile
AutoDownloadAndSave ==
    /\ pc = "save"
    /\ todo # <<>>
    /\ \E f \in {format_subtitle_output_filename(options.files[file_idx],
                                                   Head(todo))},
          yn \in {"y", "n", "^C"}, dl \in {"ok", "failed"} :
        LET cand == Head(todo)
            collide == in_batch(downloaded, f.path)
            exists == f.path \in DOMAIN fs
            act == existing_action(exists, options.existing, yn)
            outcome ==
                IF ~f.ok THEN "SelfOverwrite"
                ELSE IF collide THEN "FilenameCollision"
                ELSE IF act = "download"
                     THEN IF dl = "ok" THEN "written" ELSE "DownloadFailed"
                ELSE act
            newfs == IF outcome = "written"
                     THEN (f.path :> Payload(cand.IDSubtitleFile)) @@ fs
                     ELSE fs
        IN
        /\ fs' = newfs
        /\ downloaded' =
              IF downloaded.on /\ f.ok /\ ~collide
              THEN [downloaded EXCEPT !.paths = @ \cup {f.path}]
              ELSE downloaded
        /\ saves' = Append(saves,
              [file |-> file_idx, sub |-> cand.IDSubtitleFile,
               path |-> f.path, existed |-> exists, outcome |-> outcome,
               token |-> IF outcome \in {"written", "DownloadFailed"}
                         THEN osdb_token ELSE None,
               answer |-> IF f.ok /\ ~collide /\ exists
                               /\ options.existing = "query"
                          THEN yn ELSE "-",
               pre |-> IF exists THEN fs[f.path] ELSE Absent,
               post |-> IF f.path \in DOMAIN newfs
                        THEN newfs[f.path] ELSE Absent])
        /\ CASE outcome \in {"written", "bypass"} ->
                  /\ todo' = Tail(todo)
                  /\ IF Tail(todo) = <<>>
                     THEN pc' = "loop" /\ file_idx' = file_idx + 1
                     ELSE pc' = "save" /\ UNCHANGED file_idx
                  /\ UNCHANGED <<exit_code, error>>
             [] outcome = "SelfOverwrite" ->
                  uncaught(outcome) /\ UNCHANGED <<todo, file_idx>>
             [] outcome = "ExistingFile" ->
                  fatal_error(outcome, 3) /\ UNCHANGED <<todo, file_idx>>
             [] OTHER ->
                  fatal_error(outcome, 1) /\ UNCHANGED <<todo, file_idx>>
    /\ UNCHANGED <<options, search_results, no_search_results, osdb_token,
                   logins, searches>>
    /\ UNCHANGED <<filterVars, hashVars>>

NextMain ==
    \/ osdb_connect
    \/ main_file
    \/ SearchSubtitlesByHash
    \/ SearchSubtitlesByIMDBId
    \/ SearchSubtitlesByString
    \/ main_results
    \/ AutoDownloadAndSave
    \/ main_end

Init == InitMain /\ IdleFilter /\ IdleHash

Spec == Init /\ [][NextMain]_vars

\* ---------------------------------------------------------------- filtersub
LF == <<"\n">>
CRLF == <<"\r", "\n">>

\* bytes.strip(): leading and trailing whitespace removed
Whitespace == {" ", "\t", "\n", "\r"}

RECURSIVE lstrip(_)
lstrip(s) ==
    IF s # <<>> /\ Head(s) \in Whitespace THEN lstrip(Tail(s)) ELSE s

RECURSIVE rstrip(_)
rstrip(s) ==
    IF s # <<>> /\ s[Len(s)] \in Whitespace
    THEN rstrip(SubSeq(s, 1, Len(s) - 1)) ELSE s

strip(s) == rstrip(lstrip(s))

\* re.search(b"\r\n", s)
has_crlf(s) == \E i \in 1..(Len(s) - 1) : s[i] = "\r" /\ s[i + 1] = "\n"

\* the length of the match of \r?\n at position i, 0 without a match
brk(s, i) ==
    IF i <= Len(s) /\ s[i] = "\n" THEN 1
    ELSE IF i < Len(s) /\ s[i] = "\r" /\ s[i + 1] = "\n" THEN 2
    ELSE 0

\* the longest match of (?:\r?\n)* at position i: its breaks and its length
RECURSIVE breaks(_, _)
breaks(s, i) ==
    IF brk(s, i) = 0 THEN [n |-> 0, len |-> 0]
    ELSE LET r == breaks(s, i + brk(s, i))
         IN [n |-> r.n + 1, len |-> r.len + brk(s, i)]

\* re.split(b"(?:\r?\n){2,}", s), from position i with cur collected so far
RECURSIVE split_blocks(_, _, _)
split_blocks(s, i, cur) ==
    IF i > Len(s) THEN <<cur>>
    ELSE IF breaks(s, i).n >= 2
    THEN <<cur>> \o split_blocks(s, i + breaks(s, i).len, <<>>)
    ELSE split_blocks(s, i + 1, Append(cur, s[i]))

\* re.split(b"\r?\n", sub, maxsplit), from position i
RECURSIVE split_lines(_, _, _, _)
split_lines(s, i, cur, maxsplit) ==
    IF i > Len(s) THEN <<cur>>
    ELSE IF maxsplit = 0 THEN <<cur \o SubSeq(s, i, Len(s))>>
    ELSE IF brk(s, i) > 0
    THEN <<cur>> \o split_lines(s, i + brk(s, i), <<>>, maxsplit - 1)
    ELSE split_lines(s, i + 1, Append(cur, s[i]), maxsplit)

\* BLACKLIST: "x" stands for the plain words of the list (opensubtitles,
\* titlovi, ...), next to the two patterns anchored to a whole line
BLACKLIST ==
    {[word |-> <<"x">>, anchored |-> FALSE],
     [word |-> <<"_">>, anchored |-> TRUE],
     [word |-> <<"-", " ", "_">>, anchored |-> TRUE]}

\* re.I
lower(c) == IF c = "X" THEN "x" ELSE c

\* filter_pattern.search(text) with re.M | re.I: ^ matches at the start and
\* after a "\n", $ at the end and before a "\n"
filter_pattern_search(text) ==
    \E pat \in BLACKLIST, p \in 1..Len(text) :
        LET q == p + Len(pat.word) - 1 IN
        /\ q <= Len(text)
        /\ \A k \in 1..Len(pat.word) : lower(text[p + k - 1]) = pat.word[k]
        /\ pat.anchored =>
              /\ (p = 1 \/ text[p - 1] = "\n")
              /\ (q = Len(text) \/ text[q + 1] = "\n")

\* str(n)
DigitChar == [d \in 0..9 |->
    CASE d = 0 -> "0" [] d = 1 -> "1" [] d = 2 -> "2" [] d = 3 -> "3"
      [] d = 4 -> "4" [] d = 5 -> "5" [] d = 6 -> "6" [] d = 7 -> "7"
      [] d = 8 -> "8" [] d = 9 -> "9"]
RECURSIVE str(_)
str(n) == IF n < 10 THEN <<DigitChar[n]>>
          ELSE str(n \div 10) \o <<DigitChar[n % 10]>>

\* sep.join(parts)
RECURSIVE join(_, _)
join(sep, parts) ==
    IF parts = <<>> THEN <<>>
    ELSE IF Len(parts) = 1 THEN parts[1]
    ELSE parts[1] \o sep \o join(sep, Tail(parts))

\* (a variant that never consults the pattern)
deleted_malformed_only(sub) == Len(sub) < 3

\* the cues the reverse loop deletes: fewer than three parts, or a text that
\* the pattern finds
deleted(sub) == Len(sub) < 3 \/ filter_pattern_search(sub[3])

kept(sub) == ~deleted(sub)

filtersub(s0) ==
    LET s == strip(s0)
        line_sep == IF has_crlf(s) THEN CRLF ELSE LF
        blocks == split_blocks(s, 1, <<>>)
        subs == [i \in 1..Len(blocks) |-> split_lines(blocks[i], 1, <<>>, 2)]
        left == SelectSeq(subs, kept)
        numbered == [i \in 1..Len(left) |->
                        <<str(i), left[i][2], left[i][3]>>]
    IN join(line_sep \o line_sep,
            [i \in 1..Len(numbered) |-> join(line_sep, numbered[i])])

\* The payloads filtersub is applied to.  A layout lists the blocks of a
\* payload, each block the parts its first two line breaks separate (the text
\* part may itself hold line breaks), the line break used inside the blocks,
\* the run of line breaks between blocks, and what surrounds the blocks.
Texts ==
    {<<"a">>,                       \* plain
     <<"a", " ">>,                  \* ends in a space
     <<" ">>,                       \* only a space
     <<"X">>,                       \* a blacklisted word, in upper case
     <<"_">>,                       \* an anchored pattern, alone on its line
     <<"a", "\n", "-", " ", "_">>,  \* an anchored pattern on the second line
     <<"_", "\r", "\n", "a">>,      \* "_" before a carriage return: no match
     <<"a", "_">>}                  \* "_" inside a line: no match

BlockPool ==
    {<<<<"7">>, <<"T">>, text>> : text \in Texts}
        \cup {<<<<"9">>>>, <<<<"9">>, <<"T">>>>}

Layouts ==
    [blocks : UNION {[1..n -> BlockPool] : n \in 0..MaxCues},
     eol : {LF, CRLF},
     sep : {LF \o LF, CRLF \o CRLF, LF \o CRLF \o LF},
     lead : {<<>>, CRLF},
     trail : {<<>>, LF}]

\* the bytes of a payload laid out as l
Bytes(l) ==
    l.lead
        \o join(l.sep, [i \in 1..Len(l.blocks) |-> join(l.eol, l.blocks[i])])
        \o l.trail

IdleMain ==
    /\ options = CHOOSE o \in parseargs : TRUE
    /\ pc = "idle"
    /\ file_idx = 1
    /\ search_results = <<>>
    /\ no_search_results = 0
    /\ todo = <<>>
    /\ downloaded = NoBatch
    /\ fs = InitialFs
    /\ osdb_token = None
    /\ logins = <<>>
    /\ exit_code = Running
    /\ error = None
    /\ searches = <<>>
    /\ saves = <<>>

InitFilter ==
    /\ IdleMain
    /\ IdleHash
    /\ layout \in Layouts
    /\ payload = Bytes(layout)
    /\ output = <<>>
    /\ fstate = "called"

\* DownloadAndSaveSubtitle: s = filtersub(s)
filtersub_call ==
    /\ fstate = "called"
    /\ output' = filtersub(payload)
    /\ fstate' = "returned"
    /\ UNCHANGED <<layout, payload, mainVars, hashVars>>

SpecFilter == InitFilter /\ [][filtersub_call]_vars

\* --------------------------------------------------------------- movie_hash
\* 65536 at full scale
Window == WindowWords * bytesize

RECURSIVE Pow(_, _)
Pow(b, n) == IF n = 0 THEN 1 ELSE b * Pow(b, n - 1)

\* 0xFFFFFFFFFFFFFFFF + 1 at full scale
Modulus == Pow(256, bytesize)

MaxSize == 2 * Window + 1

MediaFiles ==
    UNION {{[i \in 1..n |-> IF i \in P THEN 255 ELSE 0] :
               P \in {Q \in SUBSET (1..n) : Cardinality(Q) <= MaxNonZero}} :
           n \in 0..MaxSize}

\* (a variant that takes the first byte as the most significant: ">Q")
RECURSIVE unpack_big_endian(_)
unpack_big_endian(bytes) ==
    IF bytes = <<>> THEN 0
    ELSE bytes[Len(bytes)]
            + 256 * unpack_big_endian(SubSeq(bytes, 1, Len(bytes) - 1))

\* struct.unpack("<Q", bytes)[0]: the first byte is the least significant
RECURSIVE unpack(_)
unpack(bytes) ==
    IF bytes = <<>> THEN 0 ELSE Head(bytes) + 256 * unpack(Tail(bytes))

\* f.read(bytesize) at position pos
read(file, pos) == SubSeq(file, pos + 1, pos + bytesize)

HexDigit == [d \in 0..15 |->
    CASE d < 10 -> DigitChar[d]
      [] d = 10 -> "a" [] d = 11 -> "b" [] d = 12 -> "c"
      [] d = 13 -> "d" [] d = 14 -> "e" [] d = 15 -> "f"]

\* "%0<width>x" % n
RECURSIVE hex(_, _)
hex(n, width) ==
    IF n < 16 /\ width <= 1 THEN <<HexDigit[n]>>
    ELSE hex(n \div 16, width - 1) \o <<HexDigit[n % 16]>>

InitHash ==
    /\ IdleMain
    /\ IdleFilter
    /\ media \in MediaFiles
    /\ hash = 0
    /\ hpos = 0
    /\ hx = 0
    /\ hread = 0
    /\ fingerprint = <<>>
    /\ hstate = "called"

hashFrame == UNCHANGED <<media, mainVars, filterVars>>

\* filesize = os.path.getsize(name); hash = filesize; the size test
movie_hash_size ==
    /\ hstate = "called"
    /\ LET filesize == Len(media) IN
       /\ hash' = filesize
       /\ hstate' = IF filesize < Window * 2 THEN "FileTooSmall" ELSE "first"
    /\ UNCHANGED <<hpos, hx, hread, fingerprint>>
    /\ hashFrame

\* one turn of a loop: a word is read and added, and the sum masked
add_word ==
    /\ hash' = (hash + unpack(read(media, hpos))) % Modulus
    /\ hpos' = hpos + bytesize
    /\ hread' = hread + bytesize
    /\ hx' = hx + 1

\* the first loop, over the words at the start of the file
movie_hash_first ==
    /\ hstate = "first"
    /\ hx < WindowWords
    /\ add_word
    /\ UNCHANGED <<fingerprint, hstate>>
    /\ hashFrame

\* f.seek(filesize - 65536, 0)
movie_hash_seek ==
    /\ hstate = "first"
    /\ hx = WindowWords
    /\ hpos' = Len(media) - Window
    /\ hx' = 0
    /\ hstate' = "last"
    /\ UNCHANGED <<hash, hread, fingerprint>>
    /\ hashFrame

\* the second loop, over the words at the end of the file
movie_hash_last ==
    /\ hstate = "last"
    /\ hx < WindowWords
    /\ add_word
    /\ UNCHANGED <<fingerprint, hstate>>
    /\ hashFrame

\* return "%016x" % hash
movie_hash_return ==
    /\ hstate = "last"
    /\ hx = WindowWords
    /\ fingerprint' = hex(hash, 2 * bytesize)
    /\ hstate' = "returned"
    /\ UNCHANGED <<hash, hpos, hx, hread>>
    /\ hashFrame

NextHash ==
    \/ movie_hash_size
    \/ movie_hash_first
    \/ movie_hash_seek
    \/ movie_hash_last
    \/ movie_hash_return

SpecHash == InitHash /\ [][NextHash]_vars

\* =================================================================== claims
DefaultMode ==
    options.search = <<>> /\ ~options.force_imdb /\ ~options.force_filename

Searched(tier) == {i \in 1..Len(searches) : searches[i].tier = tier}
ReturnedEmpty(tier) ==
    \E i \in Searched(tier) : searches[i].result = "empty"

DownloadIssued(save) == save.outcome \in {"written", "DownloadFailed"}

\* C1: in the default mode, once the searches of a file are over, the text
\* tier was attempted if and only if the hash tier returned no candidates
\* and, with an IMDB id configured, the IMDB tier returned none either.
C1_TextTierIffAllEmpty ==
    (DefaultMode /\ pc = "results") =>
        (Searched("text") # {}
            <=> (ReturnedEmpty("hash")
                 /\ (options.imdb_id # <<>> => ReturnedEmpty("imdb"))))

\* C2: a transport error of a Search at any tier ends the run at once with a
\* non-zero exit: the failed Search is the last request of the run, no
\* Download or write follows it, and no later file is started.
C2_TransportErrorAborts ==
    /\ \A i \in 1..Len(searches) :
          searches[i].result = "error" => error = "TransportFailure"
    /\ error = "TransportFailure" =>
          /\ pc = "exit"
          /\ exit_code \notin {0, Running}
          /\ searches # <<>>
          /\ searches[Len(searches)].result = "error"
          /\ searches[Len(searches)].file = file_idx
          /\ \A i \in 1..(Len(searches) - 1) : searches[i].result = "empty"
          /\ saves = <<>>
          /\ todo = <<>>

C2_Witness ==
    /\ error = "TransportFailure"
    /\ Len(options.files) = 2
    /\ file_idx = 1
    /\ Len(searches) = 2
    /\ searches[2].tier = "imdb"

\* C3: when the run ends after its last file without a fatal error, the exit
\* status is non-zero if and only if some file had no results, in every
\* selection mode.
C3_NonZeroExitIffNoResults ==
    (/\ pc = "exit"
     /\ error \in {None, "NoResults"}
     /\ file_idx >= Len(options.files))
        => (exit_code # 0 <=> no_search_results > 0)

\* C4: in an "all" download the rendered paths of one media file are
\* pairwise distinct: a candidate that renders a path of the Batch ends the
\* run with FilenameCollision before its Download and write, and the files
\* written earlier in the Batch keep their content.
C4_BatchPathsDistinct ==
    options.download = "all" =>
        /\ \A i, j \in 1..Len(saves) :
              (i < j /\ saves[i].path = saves[j].path) =>
                  /\ saves[j].outcome = "FilenameCollision"
                  /\ error = "FilenameCollision"
        /\ \A i \in 1..Len(saves) :
              saves[i].outcome = "FilenameCollision" =>
                  /\ i = Len(saves)
                  /\ pc = "exit"
                  /\ exit_code \notin {0, Running}
                  /\ saves[i].post = saves[i].pre
                  /\ saves[i].path \in downloaded.paths
        /\ \A i \in 1..Len(saves) :
              saves[i].outcome = "written" =>
                  /\ saves[i].path \in DOMAIN fs
                  /\ fs[saves[i].path] = Payload(saves[i].sub)

C4_Witness ==
    /\ options.download = "all"
    /\ Len(saves) = 2
    /\ saves[1].outcome = "written"
    /\ saves[2].outcome = "FilenameCollision"
    /\ saves[2].sub # saves[1].sub

\* C5: a rendered path equal to the path of the source media file fails
\* with SelfOverwrite, so that no Download is issued for the media file's
\* path and the media file keeps its content.
C5_NeverOverwritesMedia ==
    \A i \in 1..Len(saves) :
        LET videoname == options.files[saves[i].file] IN
        /\ saves[i].path = videoname <=> saves[i].outcome = "SelfOverwrite"
        /\ saves[i].outcome = "SelfOverwrite" =>
              /\ pc = "exit"
              /\ exit_code \notin {0, Running}
              /\ saves[i].post = saves[i].pre
        /\ DownloadIssued(saves[i]) => saves[i].path # videoname
        /\ fs[videoname] = MediaContent

C5_Witness ==
    /\ saves # <<>>
    /\ saves[Len(saves)].outcome = "SelfOverwrite"
    /\ saves[Len(saves)].path = options.files[file_idx]
    /\ options.existing = "overwrite"

\* the ratings and download counts of the candidates, as numbers (tenths)
RatingTenths(c) == CASE c = CandA -> 90 [] c = CandB -> 100 [] c = CandC -> 90
DownloadCount(c) == CASE c = CandA -> 5 [] c = CandB -> 12 [] c = CandC -> 12

\* position i holds a maximum of value over results and no earlier one does
FirstMaxRating(results, i) ==
    /\ \A j \in 1..Len(results) :
          RatingTenths(results[j]) <= RatingTenths(results[i])
    /\ \A j \in 1..(i - 1) :
          RatingTenths(results[j]) < RatingTenths(results[i])
FirstMaxDownloads(results, i) ==
    /\ \A j \in 1..Len(results) :
          DownloadCount(results[j]) <= DownloadCount(results[i])
    /\ \A j \in 1..(i - 1) :
          DownloadCount(results[j]) < DownloadCount(results[i])

\* C8: best-rating hands to AutoDownloadAndSave the first candidate, in the
\* order of the result set, whose rating is the maximum, most-downloaded the
\* first whose download count is the maximum, and nothing else is
\* downloaded for the file.
C8_StableFirstMaximum ==
    /\ (options.download = "best-rating" /\ pc = "save") =>
          \E i \in 1..Len(search_results) :
              /\ FirstMaxRating(search_results, i)
              /\ todo = <<search_results[i]>>
    /\ (options.download = "most-downloaded" /\ pc = "save") =>
          \E i \in 1..Len(search_results) :
              /\ FirstMaxDownloads(search_results, i)
              /\ todo = <<search_results[i]>>
    /\ (options.download \in {"best-rating", "most-downloaded"}
            /\ saves # <<>>) =>
          /\ Len(saves) = 1
          /\ todo = <<>> \/ pc = "exit"
          /\ \E i \in 1..Len(search_results) :
              /\ saves[1].sub = search_results[i].IDSubtitleFile
              /\ IF options.download = "best-rating"
                 THEN FirstMaxRating(search_results, i)
                 ELSE FirstMaxDownloads(search_results, i)

C8_Witness ==
    /\ options.download = "best-rating"
    /\ Len(search_results) = 2
    /\ RatingTenths(search_results[1]) = RatingTenths(search_results[2])
    /\ Len(saves) = 1
    /\ saves[1].outcome = "written"
    /\ saves[1].sub = search_results[1].IDSubtitleFile

\* the name a forced-filename search asks for: the file name without its
\* directory and extension
ExpectedName(file) ==
    CASE file = FileA -> <<"a">> [] file = FileB -> <<"a">> [] file = FileX -> <<"x">>

C10_ExistingFilePolicy ==
    \A i \in 1..Len(saves) :
        LET save == saves[i] IN
        (save.existed /\ save.outcome \notin {"SelfOverwrite", "FilenameCollision"}) =>
            /\ save.outcome = "written" =>
                  \/ options.existing = "overwrite"
                  \/ options.existing = "query" /\ save.answer = "y"
            /\ save.outcome # "written" => save.post = save.pre
            /\ options.existing = "abort" =>
                  /\ save.outcome = "ExistingFile"
                  /\ i = Len(saves)
                  /\ pc = "exit"
                  /\ exit_code = 3
            /\ options.existing = "bypass" =>
                  /\ save.outcome = "bypass"
                  /\ i = Len(saves) =>
                        /\ pc \in {"save", "loop", "exit"}
                        /\ pc = "save" => todo # <<>>
                        /\ pc = "exit" => error \in {None, "NoResults"}
            /\ options.existing \in {"abort", "bypass"} =>
                  ~DownloadIssued(save)

C10_Witness ==
    /\ options.existing = "bypass"
    /\ Len(saves) = 2
    /\ saves[1].existed
    /\ saves[1].outcome = "bypass"
    /\ saves[1].post = saves[1].pre
    /\ saves[2].outcome = "written"

\* ------------------------------------------------------------------------ C6
\* what is left of the blocks when the whitespace that ends the payload is
\* removed: the last part loses its trailing whitespace, and goes when
\* nothing is left of it
RECURSIVE RStripBlocks(_)
RStripBlocks(blocks) ==
    IF blocks = <<>> THEN <<>>
    ELSE LET n == Len(blocks)
             b == blocks[n]
             p == rstrip(b[Len(b)])
         IN IF p # <<>>
            THEN [blocks EXCEPT ![n] = [b EXCEPT ![Len(b)] = p]]
            ELSE IF Len(b) = 1 THEN RStripBlocks(SubSeq(blocks, 1, n - 1))
            ELSE RStripBlocks([blocks EXCEPT ![n] = SubSeq(b, 1, Len(b) - 1)])

WellFormed(b) == Len(b) = 3
Blacklisted(b) == WellFormed(b) /\ filter_pattern_search(b[3])
Survives(b) == WellFormed(b) /\ ~Blacklisted(b)

\* the N-M surviving cues of the blocks, numbered from 1 in their order, each
\* with its timecode line and text, joined in the line-ending style ls
Cues(blocks, ls) ==
    LET left == SelectSeq(blocks, Survives)
    IN join(ls \o ls,
            [i \in 1..Len(left) |->
                str(i) \o ls \o left[i][2] \o ls \o left[i][3]])

Style(bytes) == IF has_crlf(bytes) THEN CRLF ELSE LF

\* C6 (as stated): for a payload made of N well-formed cue blocks of which M
\* have a text matching the blacklist, filtersub returns exactly the N-M
\* others, numbered 1..N-M in their original order, with the timecode line
\* and the text of each unchanged; blocks of fewer than three parts are
\* dropped and take no number.
C6_SurvivorsUnchanged ==
    fstate = "returned" =>
        output = Cues(layout.blocks, Style(strip(payload)))

\* C6 (amended): the same, of the blocks of the payload once the whitespace
\* at its start and at its end is removed: the text of the last cue is
\* returned without its trailing whitespace, and a last cue whose text is
\* only whitespace is dropped as a block of fewer than three parts.
C6_SurvivorsOfStrippedPayload ==
    fstate = "returned" =>
        output = Cues(RStripBlocks(layout.blocks), Style(strip(payload)))

\* two well-formed cues around a blacklisted one and a malformed block come
\* back as cues 1 and 2
C6_Witness ==
    /\ fstate = "returned"
    /\ Len(layout.blocks) >= 2
    /\ \E i \in 1..Len(layout.blocks) : Blacklisted(layout.blocks[i])
    /\ \E i \in 1..Len(layout.blocks) : Survives(layout.blocks[i])
    /\ output # <<>>
    /\ Head(output) = "1"

\* ------------------------------------------------------------------------ C7
\* the value of the little-endian word of the file that starts after `from`
RECURSIVE WordAt(_, _, _)
WordAt(file, from, k) ==
    IF k > bytesize THEN 0
    ELSE file[from + k] * Pow(256, k - 1) + WordAt(file, from, k + 1)

\* the sum of the words of the window of the file that starts after `from`
RECURSIVE WindowSum(_, _, _)
WindowSum(file, from, w) ==
    IF w >= WindowWords THEN 0
    ELSE WordAt(file, from + w * bytesize, 1) + WindowSum(file, from, w + 1)

Fingerprint(file) ==
    (Len(file) + WindowSum(file, 0, 0)
               + WindowSum(file, Len(file) - Window, 0)) % Modulus

\* C7: for a file of at least two windows, movie_hash returns (size + sum of
\* the little-endian words of the first window + sum of the little-endian
\* words of the last window) modulo 2^(8*bytesize), as hexadecimal digits,
\* the accumulator staying within [0, 2^(8*bytesize)) after every addition;
\* the value depends on the file alone; for a smaller file it fails with
\* FileTooSmall and has read nothing of the file.
C7_FingerprintValue ==
    /\ hash \in 0..(Modulus - 1)
    /\ hstate = "returned" =>
          /\ Len(media) >= 2 * Window
          /\ fingerprint = hex(Fingerprint(media), 2 * bytesize)
    /\ hstate = "FileTooSmall" => Len(media) < 2 * Window /\ hread = 0
    /\ hstate \in {"first", "last"} => Len(media) >= 2 * Window

\* a fingerprint whose sum wrapped around, of a file with a byte that no
\* window covers
C7_Witness ==
    /\ hstate = "returned"
    /\ Len(media) = 2 * Window + 1
    /\ Len(media) + WindowSum(media, 0, 0)
            + WindowSum(media, Len(media) - Window, 0) >= Modulus

\* ----------------------------------------------------------------------- C11
\* C11: the exit status is 0 exactly when the run succeeds fully (no fatal
\* error, and no file without search results); a run stopped by an existing
\* output file under the abort policy exits with a status of its own, not 0;
\* a run in which some file had no search results exits with a status that
\* is neither 0 nor that one.
C11_ExitCodes ==
    pc = "exit" =>
        /\ exit_code = 0 <=> (error = None /\ no_search_results = 0)
        /\ error = "ExistingFile" <=> exit_code = 3
        /\ error = "NoResults" => exit_code \notin {0, 3}

\* ----------------------------------------------------------------------- C12
\* the tokens passed with the Search and Download requests of the file
RequestTokens ==
    {searches[i].token : i \in 1..Len(searches)}
        \cup {saves[i].token : i \in {j \in 1..Len(saves) :
                                          DownloadIssued(saves[j])}}

\* C12: LogIn is called once, before any file is processed: every Search and
\* Download follows a LogIn answered "200 OK" and carries the token of that
\* answer, for every file; a LogIn answered otherwise ends the run with a
\* non-zero exit before any file is examined, searched or written.
C12_LoginOnceBeforeFiles ==
    /\ Len(logins) <= 1
    /\ pc # "connect" => Len(logins) = 1
    /\ pc \notin {"connect", "exit"} => logins[1].status = "200 OK"
    /\ RequestTokens # {} =>
          /\ Len(logins) = 1
          /\ logins[1].status = "200 OK"
          /\ RequestTokens = {logins[1].token}
    /\ (logins # <<>> /\ logins[1].status = "200 OK") =>
          osdb_token = logins[1].token
    /\ (logins # <<>> /\ logins[1].status # "200 OK") =>
          /\ pc = "exit"
          /\ exit_code \notin {0, Running}
          /\ file_idx = 1
          /\ searches = <<>>
          /\ saves = <<>>
          /\ fs = InitialFs

\* a Search and a Download of the second file carry the token of the LogIn
C12_Witness ==
    /\ file_idx = 2
    /\ \E i \in 1..Len(searches) : searches[i].token = logins[1].token
    /\ \E i \in 1..Len(saves) :
          saves[i].outcome = "written" /\ saves[i].token = logins[1].token

\* a LogIn answered "401 Unauthorized" has ended the run
C12_WitnessRefused ==
    /\ logins # <<>>
    /\ logins[1].status # "200 OK"
    /\ pc = "exit"
====
